---- MODULE Spec2Model ----
(***************************************************************************)
(* Order-book reconstruction and replication engine of KafkaTrader:       *)
(* OrderBook (src/OrderBook.py) and OrderbookManager with its feed loop   *)
(* (src/MarketDataService.py, src/KalshiWebsocketClient.py).              *)
(*                                                                         *)
(* Specifications:                                                         *)
(*   SpecBook  one OrderBook object: built from a snapshot, then deltas   *)
(*             (update) by the feeding task, while a second task runs     *)
(*             initialize_producer; the awaits of initialize_producer are *)
(*             the points where the two tasks interleave.                 *)
(*   Spec      the feed loop: listen -> message_callback ->               *)
(*             process_message, one message at a time.                    *)
(*   SpecQuery one OrderBook object built from a snapshot and queried     *)
(*             with get_book.                                             *)
(*   SpecConsume  the topic of one market: the manager's book publishing  *)
(*             to it and two monitor_market tasks reading it through      *)
(*             OrderBook.from_kafka.                                      *)
(*   SpecShutdown  the producers the manager starts, one per snapshot,    *)
(*             and the shutdown task closing the service.                 *)
(*   SpecCommands  the control commands of the websocket client, issued   *)
(*             by two tasks.                                              *)
(*   SpecRange one OrderBook fed with events whose prices lie on both     *)
(*             sides of the bounds 0 and 100.                             *)
(***************************************************************************)
EXTENDS Integers, Sequences, FiniteSets, TLC

VARIABLES
    book,              \* SpecBook: the OrderBook object
    topic,             \* SpecBook: records delivered to topic orderbook.<ticker>
    initPc,            \* SpecBook: position of the task inside initialize_producer
    flushIdx,          \* SpecBook: index of the for loop over _pending_messages
    nPublished,        \* SpecBook: number of records handed to _publish_to_kafka
    handedOver,        \* record id -> the publishing book's state when _publish_to_kafka made the record
    bookResult,        \* SpecBook: outcome of the last update() call
    bookPrev,          \* SpecBook: the OrderBook as it was when the last update() was called
    bookMsg,           \* SpecBook: the payload of the last update() call
    orderbooks,        \* Spec: OrderbookManager.orderbooks
    sequence_numbers,  \* Spec: OrderbookManager.sequence_numbers
    result,            \* Spec: outcome of the last process_message call
    raised,            \* Spec: whether the last process_message raised to its caller
    emitted,           \* Spec: records published while the last message was processed
    pc,                \* Spec: position of the feeding task in the loop of listen
    inflight,          \* Spec: the envelope received and not yet processed
    accepted,          \* Spec: the channels on which a sequence number has been accepted
    gapRecords,        \* Spec: records published so far by messages that failed the sequence check
    lastHandled,       \* Spec: type and ticker of the message the last process_message call was given
    running,           \* Spec: number of message_callback executions begun and not yet returned
    view,              \* SpecQuery: what the last get_book call returned
    readers,           \* SpecConsume: the monitor_market tasks and their from_kafka consumers
    producers,         \* SpecShutdown: the producer of each OrderBook the manager built, in order
    registered,        \* SpecShutdown: which of these OrderBooks orderbooks[ticker] is (0: none)
    socket,            \* SpecShutdown: the websocket of the client
    tasks,             \* SpecShutdown: the tasks of the loop other than shutdown
    sdPc,              \* SpecShutdown: position of the shutdown task
    collected,         \* SpecShutdown: errors that the gather calls have collected
    command_id,        \* SpecCommands: KalshiWebsocketClient.command_id
    wire,              \* SpecCommands: the commands the websocket has sent, in order
    senders,           \* SpecCommands: the tasks calling the command methods of the client
    fedInRange,         \* SpecRange: every event given to the book so far had its price in 0 .. 100
    prevHandled        \* SpecSeq: the message processed before the last one, and its outcome

bookVars == <<book, topic, initPc, flushIdx, nPublished, handedOver, bookResult, bookPrev, bookMsg>>
mgrVars  == <<orderbooks, sequence_numbers, result, raised, emitted, pc, inflight,
              accepted, gapRecords, lastHandled, running>>
shutdownVars == <<producers, registered, socket, tasks, sdPc, collected>>
commandVars == <<command_id, wire, senders>>
auxVars  == <<view, readers, shutdownVars, commandVars, fedInRange, prevHandled>>
vars     == <<bookVars, mgrVars, auxVars>>

----------------------------------------------------------------------------
(* Bounds of the model *)

\* largest quantity a level is allowed to reach in the model
MaxQty == 2

\* largest number of [price, quantity] entries on one side of a snapshot
MaxSnapLen == 2

\* largest number of records one publishing OrderBook hands to _publish_to_kafka
MaxPub == 2

\* largest sequence number the feed carries
MaxSeq == 2

\* the feed loop stops being explored after that many records published by
\* sequence-failing messages
MaxGapRecords == 2

\* largest number of snapshots processed before the shutdown
MaxProducers == 3

\* largest number of control commands the client is asked to send
MaxCommands == 3

Prices     == {40, 55}
SnapQtys   == {-1, 0, 1}
DeltaSizes == {-2, -1, 1}
Tickers    == {"A", "B"}

\* Python's None, where a string or an integer is expected
NoneStr == "None"
NoneInt == -999

----------------------------------------------------------------------------
(* Python dictionaries and optional values *)

\* the empty dict
EmptyLevels == [p \in {} |-> 0]

\* d[k] = v
DictSet(d, k, v) == [p \in (DOMAIN d) \cup {k} |-> IF p = k THEN v ELSE d[p]]

\* d.pop(k, None)
DictPop(d, k) == [p \in (DOMAIN d) \ {k} |-> d[p]]

\* d.get(k, 0)
DictGet0(d, k) == IF k \in DOMAIN d THEN d[k] ELSE 0

\* max(d.keys()), min(d.keys())
MaxKey(d) == CHOOSE p \in DOMAIN d : \A q \in DOMAIN d : q <= p
MinKey(d) == CHOOSE p \in DOMAIN d : \A q \in DOMAIN d : q >= p

----------------------------------------------------------------------------
(* OrderBook: src/OrderBook.py *)

\* best_yes / best_no: None or PriceLevel(price, quantity)
NoPriceLevel == [present |-> FALSE, price |-> 0, quantity |-> 0]
PriceLevel(price, quantity) == [present |-> TRUE, price |-> price, quantity |-> quantity]

\* {int(price): int(quantity) for price, quantity in orders if quantity > 0}
RECURSIVE levels_from_orders(_)
levels_from_orders(orders) ==
    IF orders = <<>> THEN EmptyLevels
    ELSE LET n    == Len(orders)
             rest == levels_from_orders(SubSeq(orders, 1, n - 1))
             e    == orders[n]
         IN IF e[2] > 0 THEN DictSet(rest, e[1], e[2]) ELSE rest

\* the mutant of _update_top_of_book: the cached values are left as they were
update_top_of_book_stale(b) == b

\* OrderBook._update_top_of_book
update_top_of_book(b) ==
    [b EXCEPT
        !.best_yes = IF DOMAIN b.yes_levels = {} THEN NoPriceLevel
                     ELSE PriceLevel(MaxKey(b.yes_levels), b.yes_levels[MaxKey(b.yes_levels)]),
        !.best_no  = IF DOMAIN b.no_levels = {} THEN NoPriceLevel
                     ELSE PriceLevel(MinKey(b.no_levels), b.no_levels[MinKey(b.no_levels)])]

\* OrderBook.__init__ on {'market_ticker': ticker, 'yes': yes_orders, 'no': no_orders}
NewOrderBook(ticker, yes_orders, no_orders, publish_to_kafka) ==
    update_top_of_book(
        [ticker           |-> ticker,
         yes_levels       |-> levels_from_orders(yes_orders),
         no_levels        |-> levels_from_orders(no_orders),
         best_yes         |-> NoPriceLevel,
         best_no          |-> NoPriceLevel,
         producer         |-> "None",
         should_publish   |-> publish_to_kafka,
         pending_messages |-> <<>>])

\* the mutant of _update_side: a level that reaches 0 is kept at zero
update_side_keep_zero(b, side, price, size_delta) ==
    LET levels       == IF side = "yes" THEN b.yes_levels ELSE b.no_levels
        new_quantity == DictGet0(levels, price) + size_delta
    IN IF side \notin {"yes", "no"} THEN [err |-> "InvalidSide", book |-> b]
       ELSE IF new_quantity < 0 THEN [err |-> "NegativeQuantity", book |-> b]
       ELSE [err  |-> "ok",
             book |-> update_top_of_book(
                        IF side = "yes"
                        THEN [b EXCEPT !.yes_levels = DictSet(@, price, new_quantity)]
                        ELSE [b EXCEPT !.no_levels = DictSet(@, price, new_quantity)])]

\* the mutant of _update_side: the level is written before the sign is tested
update_side_write_first(b, side, price, size_delta) ==
    LET levels       == IF side = "yes" THEN b.yes_levels ELSE b.no_levels
        new_quantity == DictGet0(levels, price) + size_delta
        written      == IF side = "yes"
                        THEN [b EXCEPT !.yes_levels = DictSet(@, price, new_quantity)]
                        ELSE [b EXCEPT !.no_levels = DictSet(@, price, new_quantity)]
        popped       == IF side = "yes"
                        THEN [b EXCEPT !.yes_levels = DictPop(@, price)]
                        ELSE [b EXCEPT !.no_levels = DictPop(@, price)]
    IN IF side \notin {"yes", "no"} THEN [err |-> "InvalidSide", book |-> b]
       ELSE IF new_quantity < 0 THEN [err |-> "NegativeQuantity", book |-> written]
       ELSE IF new_quantity = 0 THEN [err |-> "ok", book |-> update_top_of_book(popped)]
       ELSE [err |-> "ok", book |-> update_top_of_book(written)]

\* the mutant of _update_side: the delta is taken as the level's new quantity
update_side_absolute(b, side, price, size_delta) ==
    LET new_quantity == size_delta
    IN IF side \notin {"yes", "no"} THEN [err |-> "InvalidSide", book |-> b]
       ELSE IF new_quantity = 0
       THEN [err  |-> "ok",
             book |-> update_top_of_book(
                        IF side = "yes"
                        THEN [b EXCEPT !.yes_levels = DictPop(@, price)]
                        ELSE [b EXCEPT !.no_levels = DictPop(@, price)])]
       ELSE IF new_quantity < 0 THEN [err |-> "NegativeQuantity", book |-> b]
       ELSE [err  |-> "ok",
             book |-> update_top_of_book(
                        IF side = "yes"
                        THEN [b EXCEPT !.yes_levels = DictSet(@, price, new_quantity)]
                        ELSE [b EXCEPT !.no_levels = DictSet(@, price, new_quantity)])]

\* the mutant of _update_side: a quantity below zero is written like any other
update_side_no_negative_check(b, side, price, size_delta) ==
    LET levels           == IF side = "yes" THEN b.yes_levels ELSE b.no_levels
        current_quantity == DictGet0(levels, price)
        new_quantity     == current_quantity + size_delta
    IN IF side \notin {"yes", "no"} THEN [err |-> "InvalidSide", book |-> b]
       ELSE IF new_quantity = 0
       THEN [err  |-> "ok",
             book |-> update_top_of_book(
                        IF side = "yes"
                        THEN [b EXCEPT !.yes_levels = DictPop(@, price)]
                        ELSE [b EXCEPT !.no_levels = DictPop(@, price)])]
       ELSE [err  |-> "ok",
             book |-> update_top_of_book(
                        IF side = "yes"
                        THEN [b EXCEPT !.yes_levels = DictSet(@, price, new_quantity)]
                        ELSE [b EXCEPT !.no_levels = DictSet(@, price, new_quantity)])]

\* OrderBook._update_side: the error raised ("ok" when none) and the book afterwards
update_side(b, side, price, size_delta) ==
    LET levels           == IF side = "yes" THEN b.yes_levels ELSE b.no_levels
        current_quantity == DictGet0(levels, price)
        new_quantity     == current_quantity + size_delta
    IN IF side \notin {"yes", "no"} THEN [err |-> "InvalidSide", book |-> b]
       ELSE IF new_quantity = 0
       THEN [err  |-> "ok",
             book |-> update_top_of_book(
                        IF side = "yes"
                        THEN [b EXCEPT !.yes_levels = DictPop(@, price)]
                        ELSE [b EXCEPT !.no_levels = DictPop(@, price)])]
       ELSE IF new_quantity < 0 THEN [err |-> "NegativeQuantity", book |-> b]
       ELSE [err  |-> "ok",
             book |-> update_top_of_book(
                        IF side = "yes"
                        THEN [b EXCEPT !.yes_levels = DictSet(@, price, new_quantity)]
                        ELSE [b EXCEPT !.no_levels = DictSet(@, price, new_quantity)])]

\* a delta payload: {'side': .., 'price': .., 'delta': ..}, None for a missing field
DeltaMsg(side, price, size_delta) == [side |-> side, price |-> price, delta |-> size_delta]

\* the mutant of update: the fields of the message are not checked
update_no_field_check(b, msg) ==
    update_side(b, msg.side, msg.price, msg.delta)

\* OrderBook.update up to its call of _publish_to_kafka: the error raised
\* ("ok" when none, and then _publish_to_kafka is called) and the book afterwards
update(b, msg) ==
    IF msg.side = NoneStr \/ msg.price = NoneInt \/ msg.delta = NoneInt
    THEN [err |-> "MissingFields", book |-> b]
    ELSE update_side(b, msg.side, msg.price, msg.delta)

\* the mutant of the record: only the yes side is sent
Record_yes_only(b, id) ==
    [id |-> id, market_ticker |-> b.ticker, yes |-> b.yes_levels, no |-> EmptyLevels]

\* the record that json.dumps makes of {'market_ticker': self.ticker,
\* 'yes': self.yes_levels, 'no': self.no_levels} when it is sent: the dict holds
\* the book's own level dicts, so the record has their content at that time
Record(b, id) ==
    [id |-> id, market_ticker |-> b.ticker, yes |-> b.yes_levels, no |-> b.no_levels]

\* OrderBook.initialize_producer run to its end with no other task using the
\* book: the producer is started, the buffered records are sent in list order
\* and _pending_messages is reset; the book afterwards and the records sent
initialize_producer(b) ==
    IF b.should_publish /\ b.producer = "None"
    THEN [book |-> [b EXCEPT !.producer = "started", !.pending_messages = <<>>],
          sent |-> [i \in 1 .. Len(b.pending_messages) |-> Record(b, b.pending_messages[i])]]
    ELSE [book |-> b, sent |-> <<>>]

\* the mutant of get_book: the offers are made from the chosen side
get_book_same_side(b, side) ==
    LET bids == IF side = "yes" THEN b.yes_levels ELSE b.no_levels
    IN [side   |-> side,
        bids   |-> bids,
        offers |-> [k \in {100 - price : price \in DOMAIN bids} |->
                      bids[CHOOSE price \in DOMAIN bids : 100 - price = k]]]

\* OrderBook.get_book: the bids are the chosen side's dict, the offers the
\* dict comprehension {100 - int(price): quantity} over the other side
get_book(b, side) ==
    LET bids     == IF side = "yes" THEN b.yes_levels ELSE b.no_levels
        alt_bids == IF side = "yes" THEN b.no_levels ELSE b.yes_levels
    IN [side   |-> side,
        bids   |-> bids,
        offers |-> [k \in {100 - price : price \in DOMAIN alt_bids} |->
                      alt_bids[CHOOSE price \in DOMAIN alt_bids : 100 - price = k]]]

----------------------------------------------------------------------------
(* OrderbookManager: src/MarketDataService.py *)

\* the channels that carry a sequence counter
Channels == {"orderbook_delta", "orderbook_snapshot", "trade"}

\* the value sequence_numbers holds for a channel before any number is recorded
Unset == -1

\* no OrderBook registered under a ticker
NoBook == [ticker |-> NoneStr]

\* an envelope {'type': .., 'seq': .., 'msg': {'market_ticker': .., ...}}: the
\* payload carries yes/no for a snapshot and side/price/delta for a delta
Envelope(type, seq, ticker, yes_orders, no_orders, delta) ==
    [type |-> type, seq |-> seq, market_ticker |-> ticker,
     yes |-> yes_orders, no |-> no_orders, delta |-> delta]

\* the mutant of _check_sequence: a message without sequence number passes
check_sequence_none_passes(seqs, channel, seq_no) ==
    IF seq_no = NoneInt THEN [err |-> "ok", sequence_numbers |-> seqs]
    ELSE IF seqs[channel] # Unset /\ seq_no # seqs[channel] + 1
    THEN [err |-> "SequenceGap", sequence_numbers |-> seqs]
    ELSE [err |-> "ok", sequence_numbers |-> [seqs EXCEPT ![channel] = seq_no]]

\* the mutant of _check_sequence: one counter for all the channels
check_sequence_shared_counter(seqs, channel, seq_no) ==
    IF seq_no = NoneInt THEN [err |-> "MissingSequence", sequence_numbers |-> seqs]
    ELSE IF seqs[channel] # Unset /\ seq_no # seqs[channel] + 1
    THEN [err |-> "SequenceGap", sequence_numbers |-> seqs]
    ELSE [err |-> "ok", sequence_numbers |-> [c \in DOMAIN seqs |-> seq_no]]

\* OrderbookManager._check_sequence: the error raised ("ok" when none) and
\* sequence_numbers afterwards
check_sequence(seqs, channel, seq_no) ==
    IF seq_no = NoneInt THEN [err |-> "MissingSequence", sequence_numbers |-> seqs]
    ELSE IF seqs[channel] # Unset /\ seq_no # seqs[channel] + 1
    THEN [err |-> "SequenceGap", sequence_numbers |-> seqs]
    ELSE [err |-> "ok", sequence_numbers |-> [seqs EXCEPT ![channel] = seq_no]]

\* the mutant of _process_orderbook_snapshot: the snapshot's levels are written
\* over the levels of the book already registered for the ticker
process_orderbook_snapshot_merge(books, market_ticker, m) ==
    LET fresh == NewOrderBook(market_ticker, m.yes, m.no, TRUE)
        old   == IF books[market_ticker] = NoBook THEN fresh ELSE books[market_ticker]
        over(o, n) == [p \in DOMAIN o \cup DOMAIN n |-> IF p \in DOMAIN n THEN n[p] ELSE o[p]]
        orderbook == update_top_of_book(
                        [fresh EXCEPT !.yes_levels = over(old.yes_levels, fresh.yes_levels),
                                      !.no_levels = over(old.no_levels, fresh.no_levels)])
        started   == initialize_producer(orderbook)
    IN [err        |-> "ok",
        orderbooks |-> [books EXCEPT ![market_ticker] = started.book],
        emitted    |-> started.sent]

\* OrderbookManager._process_orderbook_snapshot
process_orderbook_snapshot(books, market_ticker, m) ==
    LET orderbook == NewOrderBook(market_ticker, m.yes, m.no, TRUE)
        started   == initialize_producer(orderbook)
    IN [err        |-> "ok",
        orderbooks |-> [books EXCEPT ![market_ticker] = started.book],
        emitted    |-> started.sent]

\* the mutant of _process_orderbook_delta: a delta for a ticker without a book
\* is applied to a new empty book
process_orderbook_delta_autocreate(books, market_ticker, m) ==
    LET b == IF books[market_ticker] = NoBook
             THEN initialize_producer(NewOrderBook(market_ticker, <<>>, <<>>, TRUE)).book
             ELSE books[market_ticker]
        r == update(b, m.delta)
    IN [err        |-> r.err,
        orderbooks |-> [books EXCEPT ![market_ticker] = r.book],
        emitted    |-> IF r.err = "ok" /\ r.book.should_publish
                       THEN <<Record(r.book, 1)>> ELSE <<>>]

\* OrderbookManager._process_orderbook_delta, with OrderBook.update and its
\* _publish_to_kafka on the started producer
process_orderbook_delta(books, market_ticker, m) ==
    IF books[market_ticker] = NoBook
    THEN [err |-> "UnknownMarket", orderbooks |-> books, emitted |-> <<>>]
    ELSE LET r == update(books[market_ticker], m.delta)
         IN [err        |-> r.err,
             orderbooks |-> [books EXCEPT ![market_ticker] = r.book],
             emitted    |-> IF r.err = "ok" /\ r.book.should_publish
                            THEN <<Record(r.book, 1)>> ELSE <<>>]

\* the outcome of a process_message call
Outcome(res, isRaised, books, seqs, sent) ==
    [result |-> res, raised |-> isRaised, orderbooks |-> books,
     sequence_numbers |-> seqs, emitted |-> sent]

\* the mutant of the try block: the error is logged and not re-raised
HandleThenCheck_swallow(handled, seqs, channel, seq_no) ==
    IF handled.err # "ok"
    THEN Outcome(handled.err, FALSE, handled.orderbooks, seqs, handled.emitted)
    ELSE LET c == check_sequence(seqs, channel, seq_no)
         IN Outcome(c.err, FALSE, handled.orderbooks, c.sequence_numbers, handled.emitted)

\* the mutant of the try block: the sequence number of a message whose payload
\* handler failed is recorded all the same
HandleThenCheck_record_failed(handled, seqs, channel, seq_no) ==
    IF handled.err # "ok"
    THEN Outcome(handled.err, TRUE, handled.orderbooks,
                 IF seq_no = NoneInt THEN seqs ELSE [seqs EXCEPT ![channel] = seq_no],
                 handled.emitted)
    ELSE LET c == check_sequence(seqs, channel, seq_no)
         IN Outcome(c.err, c.err # "ok", handled.orderbooks, c.sequence_numbers,
                    handled.emitted)

\* the payload handler of a sequence-checked channel followed by the sequence
\* check, inside the try block: the first error is logged and re-raised
HandleThenCheck(handled, seqs, channel, seq_no) ==
    IF handled.err # "ok"
    THEN Outcome(handled.err, TRUE, handled.orderbooks, seqs, handled.emitted)
    ELSE LET c == check_sequence(seqs, channel, seq_no)
         IN Outcome(c.err, c.err # "ok", handled.orderbooks, c.sequence_numbers,
                    handled.emitted)

\* the sequence check followed by the payload handler
CheckThenHandle(books, handled, seqs, channel, seq_no) ==
    LET c == check_sequence(seqs, channel, seq_no)
    IN IF c.err # "ok" THEN Outcome(c.err, TRUE, books, seqs, <<>>)
       ELSE IF handled.err # "ok"
       THEN Outcome(handled.err, TRUE, handled.orderbooks, seqs, handled.emitted)
       ELSE Outcome("ok", FALSE, handled.orderbooks, c.sequence_numbers, handled.emitted)

\* the mutant of process_message: the sequence number is checked before the
\* payload is applied
process_message_check_first(books, seqs, m) ==
    IF m.type = NoneStr
    THEN Outcome("MalformedMessage", TRUE, books, seqs, <<>>)
    ELSE IF m.market_ticker = NoneStr /\ m.type # "subscribed"
    THEN Outcome("returned_no_ticker", FALSE, books, seqs, <<>>)
    ELSE CASE m.type = "subscribed" -> Outcome("ok", FALSE, books, seqs, <<>>)
           [] m.type = "ticker" -> Outcome("ok", FALSE, books, seqs, <<>>)
           [] m.type = "trade" ->
                CheckThenHandle(books, [err |-> "ok", orderbooks |-> books, emitted |-> <<>>],
                                seqs, m.type, m.seq)
           [] m.type = "orderbook_snapshot" ->
                CheckThenHandle(books, process_orderbook_snapshot(books, m.market_ticker, m),
                                seqs, m.type, m.seq)
           [] m.type = "orderbook_delta" ->
                CheckThenHandle(books, process_orderbook_delta(books, m.market_ticker, m),
                                seqs, m.type, m.seq)
           [] OTHER -> Outcome("returned_unknown_type", FALSE, books, seqs, <<>>)

\* the mutant of process_message: the control messages must carry a sequence
\* number
process_message_control_seq(books, seqs, m) ==
    IF m.type = NoneStr
    THEN Outcome("MalformedMessage", TRUE, books, seqs, <<>>)
    ELSE IF m.market_ticker = NoneStr /\ m.type # "subscribed"
    THEN Outcome("returned_no_ticker", FALSE, books, seqs, <<>>)
    ELSE CASE m.type \in {"subscribed", "ticker"} ->
                IF m.seq = NoneInt THEN Outcome("MissingSequence", TRUE, books, seqs, <<>>)
                ELSE Outcome("ok", FALSE, books, seqs, <<>>)
           [] m.type = "trade" ->
                HandleThenCheck([err |-> "ok", orderbooks |-> books, emitted |-> <<>>],
                                seqs, m.type, m.seq)
           [] m.type = "orderbook_snapshot" ->
                HandleThenCheck(process_orderbook_snapshot(books, m.market_ticker, m),
                                seqs, m.type, m.seq)
           [] m.type = "orderbook_delta" ->
                HandleThenCheck(process_orderbook_delta(books, m.market_ticker, m),
                                seqs, m.type, m.seq)
           [] OTHER -> Outcome("returned_unknown_type", FALSE, books, seqs, <<>>)

\* OrderbookManager.process_message
process_message(books, seqs, m) ==
    IF m.type = NoneStr
    THEN Outcome("MalformedMessage", TRUE, books, seqs, <<>>)
    ELSE IF m.market_ticker = NoneStr /\ m.type # "subscribed"
    THEN Outcome("returned_no_ticker", FALSE, books, seqs, <<>>)
    ELSE CASE m.type = "subscribed" -> Outcome("ok", FALSE, books, seqs, <<>>)
           [] m.type = "ticker" -> Outcome("ok", FALSE, books, seqs, <<>>)
           [] m.type = "trade" ->
                HandleThenCheck([err |-> "ok", orderbooks |-> books, emitted |-> <<>>],
                                seqs, m.type, m.seq)
           [] m.type = "orderbook_snapshot" ->
                HandleThenCheck(process_orderbook_snapshot(books, m.market_ticker, m),
                                seqs, m.type, m.seq)
           [] m.type = "orderbook_delta" ->
                HandleThenCheck(process_orderbook_delta(books, m.market_ticker, m),
                                seqs, m.type, m.seq)
           [] OTHER -> Outcome("returned_unknown_type", FALSE, books, seqs, <<>>)

----------------------------------------------------------------------------
(* SpecBook: one OrderBook, its feeding task and the task that attaches the producer *)

\* the 'yes' / 'no' lists of a snapshot: [price, quantity] pairs, in feed order
Orders == UNION {[1 .. k -> Prices \X SnapQtys] : k \in 0 .. MaxSnapLen}

\* the delta payloads handed to update()
\* the well-formed ones, and one for each way of being ill-formed
DeltaMsgs ==
    {DeltaMsg(s, p, d) : s \in {"yes", "no"}, p \in Prices, d \in DeltaSizes}
    \cup {DeltaMsg(NoneStr, 40, 1), DeltaMsg("yes", NoneInt, 1),
          DeltaMsg("no", 40, NoneInt), DeltaMsg("maybe", 40, 1)}

NoDelta == DeltaMsg(NoneStr, NoneInt, NoneInt)

\* no message processed since the last recv()
NoHandled == [type |-> NoneStr, market_ticker |-> NoneStr]

\* OrderbookManager.__init__, before the first message
MgrInit ==
    /\ orderbooks = [t \in Tickers |-> NoBook]
    /\ sequence_numbers = [c \in Channels |-> Unset]
    /\ result = "none"
    /\ raised = FALSE
    /\ emitted = <<>>
    /\ pc = "recv"
    /\ inflight = Envelope(NoneStr, NoneInt, NoneStr, <<>>, <<>>, NoDelta)
    /\ accepted = [c \in Channels |-> FALSE]
    /\ gapRecords = 0
    /\ lastHandled = NoHandled
    /\ running = 0

\* the monitor_market tasks that read the topic of ticker "A"
ReaderIds == {1, 2}

\* a monitor_market task that has not called from_kafka yet; attached is the
\* number of records the topic held when the consumer started, offset the
\* number of records the consumer is past, last the topic index of the record
\* of the last book yielded (0: none)
NoReader == [pc |-> "idle", consumer |-> "none", attached |-> 0, offset |-> 0,
             book |-> NoBook, touched |-> FALSE,
             updates |-> 0, handler |-> "none", handlerBefore |-> "none",
             last |-> 0, exit |-> "none"]

\* the tasks of the loop when the signal arrives: main (in listen) and one more
TaskIds == {"main", "other"}

\* the tasks that call subscribe, unsubscribe and update_subscription
SenderIds == {1, 2}

\* the control commands of the client
CommandNames == {"subscribe", "unsubscribe", "update_subscription"}

\* a task that is not inside a command method
NoCommand == [pc |-> "idle", cmd |-> NoneStr, id |-> 0]

\* get_book has not been called
NoView == [side |-> NoneStr, bids |-> EmptyLevels, offers |-> EmptyLevels]

\* no message processed before the last one
NoPrevHandled == [type |-> NoneStr, market_ticker |-> NoneStr, result |-> "none"]

\* the readers, the shutdown task and the client's commands before they start
ServiceInit ==
    /\ view = NoView
    /\ readers = [r \in ReaderIds |-> NoReader]
    /\ producers = [n \in 1 .. MaxProducers |-> "unused"]
    /\ registered = [t \in Tickers |-> 0]
    /\ socket = "open"
    /\ tasks = [k \in TaskIds |-> "running"]
    /\ sdPc = "serving"
    /\ collected = 0
    /\ command_id = 1
    /\ wire = <<>>
    /\ senders = [k \in SenderIds |-> NoCommand]
    /\ prevHandled = NoPrevHandled

\* the variables of the other specifications, at rest
AuxInit ==
    /\ ServiceInit
    /\ fedInRange = TRUE

InitBook ==
    /\ \E yes_orders \in Orders, no_orders \in Orders, publish_to_kafka \in BOOLEAN :
          book = NewOrderBook("A", yes_orders, no_orders, publish_to_kafka)
    /\ topic = <<>>
    /\ initPc = "idle"
    /\ flushIdx = 0
    /\ nPublished = 0
    /\ handedOver = <<>>
    /\ bookResult = "none"
    /\ bookPrev = book
    /\ bookMsg = NoDelta
    /\ MgrInit
    /\ AuxInit

\* the ticker, the content of the two level dicts and the bests of b
StateOf(b) ==
    [ticker |-> b.ticker, yes |-> b.yes_levels, no |-> b.no_levels,
     best_yes |-> b.best_yes, best_no |-> b.best_no]

\* no level of b above the model's bound
WithinMaxQty(b) ==
    /\ \A p \in DOMAIN b.yes_levels : b.yes_levels[p] <= MaxQty
    /\ \A p \in DOMAIN b.no_levels : b.no_levels[p] <= MaxQty

\* OrderBook.update(msg) called by the feeding task: the delta, then
\* _publish_to_kafka() with the producer absent (the record is buffered) or
\* started (the record is sent)
BookUpdate ==
    /\ book.should_publish => nPublished < MaxPub
    /\ book.producer # "starting"
    /\ \E msg \in DeltaMsgs :
         LET r == update(book, msg)
             n == nPublished + 1
         IN /\ WithinMaxQty(r.book)
            /\ bookPrev' = book
            /\ bookMsg' = msg
            /\ bookResult' = r.err
            /\ IF r.err # "ok" \/ ~book.should_publish
               THEN /\ book' = r.book
                    /\ UNCHANGED <<topic, nPublished, handedOver>>
               ELSE IF book.producer = "None"
               THEN /\ book' = [r.book EXCEPT !.pending_messages = Append(@, n)]
                    /\ nPublished' = n
                    /\ handedOver' = DictSet(handedOver, n, StateOf(r.book))
                    /\ UNCHANGED topic
               ELSE /\ book' = r.book
                    /\ topic' = Append(topic, Record(r.book, n))
                    /\ nPublished' = n
                    /\ handedOver' = DictSet(handedOver, n, StateOf(r.book))
    /\ UNCHANGED <<initPc, flushIdx, mgrVars, auxVars>>

\* OrderBook.update(msg) called while initialize_producer waits in
\* producer.start(): self.producer is not None, so the record is sent on a
\* producer that has not started; the send either goes through or raises
BookUpdateUnstarted ==
    /\ book.should_publish => nPublished < MaxPub
    /\ book.producer = "starting"
    /\ \E msg \in DeltaMsgs, delivered \in BOOLEAN :
         LET r == update(book, msg)
             n == nPublished + 1
         IN /\ WithinMaxQty(r.book)
            /\ bookPrev' = book
            /\ bookMsg' = msg
            /\ book' = r.book
            /\ IF r.err # "ok"
               THEN /\ bookResult' = r.err
                    /\ UNCHANGED <<topic, nPublished, handedOver>>
               ELSE /\ nPublished' = n
                    /\ handedOver' = DictSet(handedOver, n, StateOf(r.book))
                    /\ IF delivered
                       THEN /\ topic' = Append(topic, Record(r.book, n))
                            /\ bookResult' = "ok"
                       ELSE /\ UNCHANGED topic
                            /\ bookResult' = "ProducerNotStarted"
    /\ UNCHANGED <<initPc, flushIdx, mgrVars, auxVars>>

\* initialize_producer is called: it returns at once unless the book publishes
\* and has no producer; otherwise it creates the producer and waits in start()
InitProducerCall ==
    /\ initPc = "idle"
    /\ IF book.should_publish /\ book.producer = "None"
       THEN /\ book' = [book EXCEPT !.producer = "starting"]
            /\ initPc' = "starting"
       ELSE /\ initPc' = "done"
            /\ UNCHANGED book
    /\ UNCHANGED <<topic, flushIdx, nPublished, handedOver, bookResult, bookPrev, bookMsg, mgrVars, auxVars>>

\* one turn of "for msg in self._pending_messages: await self._publish_to_kafka(msg)"
\* from index i on: the next buffered record is sent and the task waits for the
\* send, or the list is exhausted and _pending_messages is reset
FlushFrom(b, i) ==
    IF i <= Len(b.pending_messages)
    THEN /\ topic' = Append(topic, Record(b, b.pending_messages[i]))
         /\ book' = b
         /\ flushIdx' = i + 1
         /\ initPc' = "flushing"
    ELSE /\ book' = [b EXCEPT !.pending_messages = <<>>]
         /\ flushIdx' = i
         /\ initPc' = "done"
         /\ UNCHANGED topic

\* producer.start() returns: the loop over the buffered records begins
InitProducerStarted ==
    /\ initPc = "starting"
    /\ FlushFrom([book EXCEPT !.producer = "started"], 1)
    /\ UNCHANGED <<nPublished, handedOver, bookResult, bookPrev, bookMsg, mgrVars, auxVars>>

\* the send of a buffered record returns: the loop goes on
InitProducerFlush ==
    /\ initPc = "flushing"
    /\ FlushFrom(book, flushIdx)
    /\ UNCHANGED <<nPublished, handedOver, bookResult, bookPrev, bookMsg, mgrVars, auxVars>>

NextBook ==
    \/ BookUpdate
    \/ BookUpdateUnstarted
    \/ InitProducerCall
    \/ InitProducerStarted
    \/ InitProducerFlush

SpecBook == InitBook /\ [][NextBook]_vars

----------------------------------------------------------------------------
(* Spec: the feed loop, KalshiWebsocketClient.listen -> main.message_callback *)
(* -> OrderbookManager.process_message                                        *)

\* the values of 'seq' on the orderbook_delta channel: absent, or an integer
SeqVals == (-1 .. MaxSeq) \cup {NoneInt}

\* the values of 'seq' on the other channels and on the control messages
OtherSeqs == {NoneInt, 0}

\* the 'yes' and 'no' lists of the snapshots in the feed
FeedSnapshots == {<< <<<<40, 1>>, <<55, 0>>>>, <<>> >>, << <<>>, <<<<40, 1>>>> >>}

\* the delta payloads in the feed
FeedDeltas ==
    {DeltaMsg("yes", 40, 1), DeltaMsg("yes", 40, -1),
     DeltaMsg("maybe", 40, 1), DeltaMsg("yes", 40, NoneInt)}

\* the envelopes in the feed
FeedMsgs ==
    {Envelope(NoneStr, NoneInt, NoneStr, <<>>, <<>>, NoDelta)}
    \cup {Envelope(ty, sq, "A", <<>>, <<>>, NoDelta) :
            ty \in {"subscribed", "ticker", "trade", "fill"}, sq \in OtherSeqs}
    \cup {Envelope(ty, 0, NoneStr, <<>>, <<>>, NoDelta) :
            ty \in {"subscribed", "ticker", "trade"}}
    \cup {Envelope("orderbook_snapshot", 0, NoneStr, <<>>, <<>>, NoDelta),
          Envelope("orderbook_delta", 0, NoneStr, <<>>, <<>>, DeltaMsg("yes", 40, 1))}
    \cup {Envelope("orderbook_snapshot", sq, tk, sn[1], sn[2], NoDelta) :
            sq \in OtherSeqs, tk \in Tickers, sn \in FeedSnapshots}
    \cup {Envelope("orderbook_delta", sq, tk, <<>>, <<>>, d) :
            sq \in SeqVals, tk \in Tickers, d \in FeedDeltas}

NoEnvelope == Envelope(NoneStr, NoneInt, NoneStr, <<>>, <<>>, NoDelta)

Init ==
    /\ MgrInit
    /\ book = NewOrderBook("A", <<>>, <<>>, FALSE)
    /\ topic = <<>>
    /\ initPc = "idle"
    /\ flushIdx = 0
    /\ nPublished = 0
    /\ handedOver = <<>>
    /\ bookResult = "none"
    /\ bookPrev = book
    /\ bookMsg = NoDelta
    /\ AuxInit

\* the delta of m would take a level of a registered book above the model's bound
ExceedsMaxQty(m) ==
    /\ m.type = "orderbook_delta"
    /\ m.market_ticker \in Tickers
    /\ orderbooks[m.market_ticker] # NoBook
    /\ m.delta.side \in {"yes", "no"}
    /\ m.delta.delta # NoneInt
    /\ DictGet0(IF m.delta.side = "yes" THEN orderbooks[m.market_ticker].yes_levels
                ELSE orderbooks[m.market_ticker].no_levels, m.delta.price)
         + m.delta.delta > MaxQty

\* listen hands the message to the callback without waiting for its return
AfterDispatch_spawn == "recv"

\* listen: "await callback(...)": the loop of listen stays at the await until
\* the callback has returned
AfterDispatch == "callback"

\* listen: "message = await self.websocket.recv()" returns a message and
\* "await callback(json.loads(message))" begins message_callback
FeedRecv ==
    /\ pc = "recv"
    /\ gapRecords < MaxGapRecords
    /\ \E m \in FeedMsgs :
         /\ ~ExceedsMaxQty(m)
         /\ inflight' = m
    /\ pc' = AfterDispatch
    /\ running' = running + 1
    /\ result' = "pending"
    /\ raised' = FALSE
    /\ emitted' = <<>>
    /\ lastHandled' = NoHandled
    /\ UNCHANGED <<orderbooks, sequence_numbers, accepted, gapRecords, bookVars, auxVars>>

\* listen: "await callback(json.loads(message))": message_callback awaits
\* process_message, logs what it raises, returns, and the loop goes back to recv()
FeedCallback ==
    /\ pc = "callback"
    /\ running > 0
    /\ LET r == process_message(orderbooks, sequence_numbers, inflight)
       IN /\ orderbooks' = r.orderbooks
          /\ sequence_numbers' = r.sequence_numbers
          /\ result' = r.result
          /\ raised' = r.raised
          /\ emitted' = r.emitted
          /\ accepted' = [c \in Channels |->
                            accepted[c] \/ (c = inflight.type /\ r.result = "ok")]
          /\ gapRecords' = gapRecords + (IF r.result = "SequenceGap" THEN Len(r.emitted) ELSE 0)
    /\ pc' = "recv"
    /\ lastHandled' = [type |-> inflight.type, market_ticker |-> inflight.market_ticker]
    /\ running' = running - 1
    /\ inflight' = NoEnvelope
    /\ UNCHANGED <<bookVars, auxVars>>

\* listen: "await self.websocket.recv()" raises ConnectionClosed: the while
\* loop is left for the except clause, which awaits self.connect()
FeedConnectionClosed ==
    /\ pc = "recv"
    /\ socket = "open"
    /\ pc' = "reconnecting"
    /\ socket' = "lost"
    /\ UNCHANGED <<orderbooks, sequence_numbers, result, raised, emitted, inflight,
                   accepted, gapRecords, lastHandled, running, bookVars, view, readers,
                   producers, registered, tasks, sdPc, collected, commandVars, fedInRange,
                   prevHandled>>

\* listen: "await self.connect()" returns with a new websocket; the except
\* clause is over and listen returns to main, which falls to its finally clause
FeedReconnected ==
    /\ pc = "reconnecting"
    /\ pc' = "returned"
    /\ socket' = "open"
    /\ UNCHANGED <<orderbooks, sequence_numbers, result, raised, emitted, inflight,
                   accepted, gapRecords, lastHandled, running, bookVars, view, readers,
                   producers, registered, tasks, sdPc, collected, commandVars, fedInRange,
                   prevHandled>>

Next ==
    \/ FeedRecv
    \/ FeedCallback
    \/ FeedConnectionClosed
    \/ FeedReconnected

Spec == Init /\ [][Next]_vars

----------------------------------------------------------------------------
(* SpecQuery: get_book on one OrderBook *)

\* the [price, quantity] lists the queried book is built from
QueryOrders == UNION {[1 .. k -> Prices \X (0 .. MaxQty)] : k \in 0 .. MaxSnapLen}

\* an OrderBook as print_orderbook receives it: built by the constructor, not
\* publishing, not yet queried
InitQuery ==
    /\ \E yes_orders \in QueryOrders, no_orders \in QueryOrders :
          book = NewOrderBook("A", yes_orders, no_orders, FALSE)
    /\ topic = <<>>
    /\ initPc = "idle"
    /\ flushIdx = 0
    /\ nPublished = 0
    /\ handedOver = <<>>
    /\ bookResult = "none"
    /\ bookPrev = book
    /\ bookMsg = NoDelta
    /\ MgrInit
    /\ AuxInit

\* a call of get_book on the book
GetBook ==
    /\ \E side \in {"yes", "no"} : view' = get_book(book, side)
    /\ UNCHANGED <<bookVars, mgrVars, readers, shutdownVars, commandVars, fedInRange,
                   prevHandled>>

NextQuery == GetBook

SpecQuery == InitQuery /\ [][NextQuery]_vars

----------------------------------------------------------------------------
(* SpecConsume: the readers of a topic, src/OrderBook.py from_kafka and
   src/MarketMonitor.py monitor_market *)

\* the deltas the manager applies to the published book
ConsumeDeltas == {DeltaMsg("yes", 40, 1), DeltaMsg("yes", 40, -1), DeltaMsg("no", 55, 1)}

\* a record on the topic that the service did not write: it has no market_ticker
ForeignRecord(id) ==
    [id |-> id, market_ticker |-> NoneStr, yes |-> EmptyLevels, no |-> EmptyLevels]

\* the mutant of the consumer's start position: the beginning of the topic
auto_offset_reset_earliest(log) == 0

\* AIOKafkaConsumer(..., auto_offset_reset='latest') with no group: the
\* consumer starts after the last record the topic holds when it attaches
auto_offset_reset(log) == Len(log)

\* the mutant of the send: the broker acknowledges only when every attached
\* consumer has read the whole topic
send_and_wait_ready_consumed(log, rdrs) ==
    \A r \in ReaderIds : rdrs[r].consumer = "started" => rdrs[r].offset = Len(log)

\* "await self.producer.send_and_wait(...)" returns when the broker has
\* acknowledged the record, whatever the consumers of the topic do
send_and_wait_ready(log, rdrs) == TRUE

\* str(n) of an integer n >= 0, as the sequence of its decimal digits
RECURSIVE str_of_int(_)
str_of_int(n) == IF n < 10 THEN <<n>> ELSE Append(str_of_int(n \div 10), n % 10)

\* int(s) of a string of decimal digits
RECURSIVE int_of_str(_)
int_of_str(s) ==
    IF Len(s) = 1 THEN s[1]
    ELSE 10 * int_of_str(SubSeq(s, 1, Len(s) - 1)) + s[Len(s)]

\* json.loads(json.dumps(d)) of a dict d with integer keys: a JSON object has
\* string keys, so each key comes back as the string of its digits
json_object(d) ==
    [k \in {str_of_int(p) : p \in DOMAIN d} |->
        d[CHOOSE p \in DOMAIN d : str_of_int(p) = k]]

\* the value a consumer gets for the record rec: value_serializer on the
\* producer, value_deserializer on the consumer
json_round_trip(rec) ==
    [id |-> rec.id, market_ticker |-> rec.market_ticker,
     yes |-> json_object(rec.yes), no |-> json_object(rec.no)]

\* {int(price): int(quantity) for price, quantity in d.items() if quantity > 0}
levels_from_items(d) ==
    [p \in {int_of_str(k) : k \in {j \in DOMAIN d : d[j] > 0}} |->
        d[CHOOSE k \in DOMAIN d : d[k] > 0 /\ int_of_str(k) = p]]

\* OrderBook.__init__ on a dict whose 'yes' and 'no' are dicts
NewOrderBookFromDict(value, publish_to_kafka) ==
    update_top_of_book(
        [ticker           |-> value.market_ticker,
         yes_levels       |-> levels_from_items(value.yes),
         no_levels        |-> levels_from_items(value.no),
         best_yes         |-> NoPriceLevel,
         best_no          |-> NoPriceLevel,
         producer         |-> "None",
         should_publish   |-> publish_to_kafka,
         pending_messages |-> <<>>])

\* the mutant of from_kafka: the book is built with the default publish_to_kafka
from_record_publishing(rec) == NewOrderBookFromDict(json_round_trip(rec), TRUE)

\* from_kafka: cls(msg.value, publish_to_kafka=False)
from_record(rec) == NewOrderBookFromDict(json_round_trip(rec), FALSE)

\* OrderBook._publish_to_kafka() of the book b, the topic being log: nothing
\* when the book does not publish, the record buffered when there is no
\* producer, the record sent otherwise; the book and the topic afterwards
publish_to_kafka(b, log, id) ==
    IF ~b.should_publish THEN [book |-> b, topic |-> log]
    ELSE IF b.producer = "None"
    THEN [book |-> [b EXCEPT !.pending_messages = Append(@, id)], topic |-> log]
    ELSE [book |-> b, topic |-> Append(log, Record(b, id))]

\* the error OrderBook.__init__ raises on a record ("ok" when none)
from_record_err(rec) == IF rec.market_ticker = NoneStr THEN "ValueError" ELSE "ok"

\* the manager's book of ticker "A" after its snapshot: producer started,
\* nothing published yet, no reader
InitConsume ==
    /\ \E snap \in FeedSnapshots :
          book = initialize_producer(NewOrderBook("A", snap[1], snap[2], TRUE)).book
    /\ topic = <<>>
    /\ initPc = "idle"
    /\ flushIdx = 0
    /\ nPublished = 0
    /\ handedOver = <<>>
    /\ bookResult = "none"
    /\ bookPrev = book
    /\ bookMsg = NoDelta
    /\ MgrInit
    /\ AuxInit

\* the manager applies a delta to the book: update, then the record of the
\* book is sent to the topic and acknowledged
ConsumePublish ==
    /\ Len(topic) < MaxPub
    /\ send_and_wait_ready(topic, readers)
    /\ \E msg \in ConsumeDeltas :
         LET r == update(book, msg)
         IN /\ r.err = "ok"
            /\ WithinMaxQty(r.book)
            /\ book' = r.book
            /\ topic' = Append(topic, Record(r.book, Len(topic) + 1))
            /\ handedOver' = DictSet(handedOver, Len(topic) + 1, StateOf(r.book))
    /\ UNCHANGED <<initPc, flushIdx, nPublished, bookResult, bookPrev, bookMsg,
                   mgrVars, auxVars>>

\* another producer writes a record without market_ticker to the topic
PublishForeign ==
    /\ Len(topic) < MaxPub
    /\ topic' = Append(topic, ForeignRecord(Len(topic) + 1))
    /\ UNCHANGED <<book, initPc, flushIdx, nPublished, handedOver, bookResult, bookPrev, bookMsg,
                   mgrVars, auxVars>>

\* the reader r alone takes a step to the state s
ReaderStep(r, s) ==
    /\ readers' = [readers EXCEPT ![r] = s]
    /\ UNCHANGED <<bookVars, mgrVars, view, shutdownVars, commandVars, fedInRange,
                   prevHandled>>

\* monitor_market enters "async for orderbook in OrderBook.from_kafka(...)":
\* the consumer is created and "await consumer.start()" returns
Subscribe(r) ==
    /\ readers[r].pc = "idle"
    /\ ReaderStep(r, [readers[r] EXCEPT !.pc = "waiting", !.consumer = "started",
                                        !.attached = Len(topic),
                                        !.offset = auto_offset_reset(topic)])

\* "async for msg in consumer" returns the next record and
\* "yield cls(msg.value, publish_to_kafka=False)" builds the book: the reader's
\* loop body receives it, or the constructor raises, the finally clause stops
\* the consumer and the error leaves monitor_market
Deliver(r) ==
    /\ readers[r].pc = "waiting"
    /\ readers[r].offset < Len(topic)
    /\ LET next == readers[r].offset + 1
       IN IF from_record_err(topic[next]) = "ok"
          THEN ReaderStep(r, [readers[r] EXCEPT !.pc = "body", !.offset = next,
                                                 !.last = next,
                                                 !.book = from_record(topic[next]),
                                                 !.touched = FALSE])
          ELSE ReaderStep(r, [readers[r] EXCEPT !.pc = "returned", !.offset = next,
                                                 !.consumer = "stopped",
                                                 !.exit = "build_error"])

\* the mutant of the loop body: what the handler raises is not caught
after_handler_uncaught(outcome) ==
    IF outcome = "returned" THEN [pc |-> "waiting", exit |-> "none"]
    ELSE [pc |-> "returned", exit |-> "break"]

\* the try statement around the handler call: where the loop of
\* monitor_market goes when the handler has returned, has raised an Exception
\* (logged) or has raised asyncio.CancelledError (break)
after_handler(outcome) ==
    IF outcome = "cancelled" THEN [pc |-> "returned", exit |-> "break"]
    ELSE [pc |-> "waiting", exit |-> "none"]

\* the loop body of monitor_market once conditional() holds: updates += 1 and
\* the handler is called with the book and the count
HandlerCall(r, outcome) ==
    ReaderStep(r, [readers[r] EXCEPT !.pc = after_handler(outcome).pc,
                                     !.exit = after_handler(outcome).exit,
                                     !.updates = @ + 1,
                                     !.handlerBefore = readers[r].handler,
                                     !.handler = outcome,
                                     !.book = NoBook, !.touched = FALSE])

\* the loop body of monitor_market: conditional() holds, the handler is
\* called (what it raises is logged) and the loop asks for the next book
BodyContinue(r) ==
    /\ readers[r].pc = "body"
    /\ \E outcome \in {"returned", "raised"} : HandlerCall(r, outcome)

\* the loop body of monitor_market: conditional() holds and the handler
\* raises asyncio.CancelledError: "break", as when conditional() does not hold
BodyCancelled(r) ==
    /\ readers[r].pc = "body"
    /\ HandlerCall(r, "cancelled")

\* the loop body of monitor_market: conditional() does not hold, "break":
\* monitor_market returns and the generator of from_kafka stays suspended at
\* its yield, inside the try block
BodyBreak(r) ==
    /\ readers[r].pc = "body"
    /\ ReaderStep(r, [readers[r] EXCEPT !.pc = "returned", !.exit = "break",
                                        !.book = NoBook, !.touched = FALSE])

\* the holder of the book that from_kafka yielded applies a delta to it:
\* update(msg), that is _update_side and _publish_to_kafka
ReaderUpdate(r) ==
    /\ readers[r].pc = "body"
    /\ ~readers[r].touched
    /\ \E msg \in ConsumeDeltas :
         LET u == update(readers[r].book, msg)
             p == publish_to_kafka(u.book, topic, Len(topic) + 1)
         IN /\ u.err = "ok"
            /\ WithinMaxQty(u.book)
            /\ readers' = [readers EXCEPT ![r].book = p.book, ![r].touched = TRUE]
            /\ topic' = p.topic
    /\ UNCHANGED <<book, initPc, flushIdx, nPublished, handedOver, bookResult, bookPrev,
                   bookMsg, mgrVars, view, shutdownVars, commandVars, fedInRange,
                   prevHandled>>

\* the event loop finalizes the abandoned generator: aclose() raises
\* GeneratorExit at the yield and the finally clause stops the consumer
Finalize(r) ==
    /\ readers[r].pc = "returned"
    /\ readers[r].exit = "break"
    /\ readers[r].consumer = "started"
    /\ ReaderStep(r, [readers[r] EXCEPT !.consumer = "stopped"])

\* the iteration over the consumer ends while the reader waits for a record:
\* the stream is over ("end"), the consumer raises ("consume_error") or the
\* task is cancelled ("cancelled"); the finally clause stops the consumer
WaitEnds(r) ==
    /\ readers[r].pc = "waiting"
    /\ \E how \in {"end", "consume_error", "cancelled"} :
          ReaderStep(r, [readers[r] EXCEPT !.pc = "returned", !.consumer = "stopped",
                                            !.exit = how])

NextConsume ==
    \/ ConsumePublish
    \/ PublishForeign
    \/ \E r \in ReaderIds :
          \/ Subscribe(r)
          \/ Deliver(r)
          \/ BodyContinue(r)
          \/ BodyBreak(r)
          \/ BodyCancelled(r)
          \/ ReaderUpdate(r)
          \/ Finalize(r)
          \/ WaitEnds(r)

SpecConsume == InitConsume /\ [][NextConsume]_vars

----------------------------------------------------------------------------
(* SpecShutdown: src/MarketDataService.py shutdown and OrderbookManager.close *)

InitShutdown == Init

\* the producers of the OrderBooks that orderbooks holds
RegisteredProducers == {registered[t] : t \in Tickers} \ {0}

\* the feeding task processes an orderbook_snapshot for ticker t: a new
\* OrderBook, its producer started by initialize_producer, and
\* "self.orderbooks[ticker] = orderbook" in the place of the book that was there
SdSnapshot(t) ==
    /\ sdPc = "serving"
    /\ tasks["main"] = "running"
    /\ \E n \in 1 .. MaxProducers :
          /\ producers[n] = "unused"
          /\ \A m \in 1 .. n - 1 : producers[m] # "unused"
          /\ producers' = [producers EXCEPT ![n] = "started"]
          /\ registered' = [registered EXCEPT ![t] = n]
    /\ UNCHANGED <<socket, tasks, sdPc, collected, bookVars, mgrVars, view, readers, commandVars, fedInRange,
                   prevHandled>>

\* shutdown begins: "task.cancel()" for every other task, then
\* "await client.close()"
ShutdownBegin ==
    /\ sdPc = "serving"
    /\ tasks' = [k \in TaskIds |-> "cancelling"]
    /\ sdPc' = "closing_socket"
    /\ UNCHANGED <<producers, registered, socket, collected, bookVars, mgrVars, view, readers, commandVars, fedInRange,
                   prevHandled>>

\* a task whose cancellation was requested gets CancelledError at its await
\* and ends
TaskCancelled(k) ==
    /\ tasks[k] = "cancelling"
    /\ tasks' = [tasks EXCEPT ![k] = "done"]
    /\ UNCHANGED <<producers, registered, socket, sdPc, collected, bookVars, mgrVars,
                   view, readers, commandVars, fedInRange,
                   prevHandled>>

\* "await client.close()" returns, or raises out of shutdown: no try around it
SocketClose ==
    /\ sdPc = "closing_socket"
    /\ \/ socket' = "closed" /\ sdPc' = "closing_books"
       \/ socket' = "close_failed" /\ sdPc' = "failed"
    /\ UNCHANGED <<producers, registered, tasks, collected, bookVars, mgrVars, view, readers, commandVars, fedInRange,
                   prevHandled>>

\* "await manager.close()": OrderBook.close of every book in
\* self.orderbooks.values(), gathered with return_exceptions=True; the
\* producers in failing raise in stop()
BooksClose ==
    /\ sdPc = "closing_books"
    /\ \E failing \in SUBSET RegisteredProducers :
          /\ producers' = [n \in 1 .. MaxProducers |->
                             IF n \in failing THEN "stop_failed"
                             ELSE IF n \in RegisteredProducers THEN "stopped"
                             ELSE producers[n]]
          /\ collected' = collected + Cardinality(failing)
    /\ sdPc' = "gathering"
    /\ UNCHANGED <<registered, socket, tasks, bookVars, mgrVars, view, readers, commandVars, fedInRange,
                   prevHandled>>

\* "await asyncio.gather(*tasks, return_exceptions=True)" returns when the
\* cancelled tasks have ended, then "loop.stop()"
TasksGather ==
    /\ sdPc = "gathering"
    /\ \A k \in TaskIds : tasks[k] = "done"
    /\ sdPc' = "stopped"
    /\ UNCHANGED <<producers, registered, socket, tasks, collected, bookVars, mgrVars,
                   view, readers, commandVars, fedInRange,
                   prevHandled>>

NextShutdown ==
    \/ \E t \in Tickers : SdSnapshot(t)
    \/ ShutdownBegin
    \/ \E k \in TaskIds : TaskCancelled(k)
    \/ SocketClose
    \/ BooksClose
    \/ TasksGather

SpecShutdown == InitShutdown /\ [][NextShutdown]_vars

----------------------------------------------------------------------------
(* SpecCommands: src/KalshiWebsocketClient.py subscribe_orderbook,
   subscribe_ticker, subscribe_trades, unsubscribe, update_subscription *)

InitCommands == Init

\* the commands handed to the client so far: sent, or being sent
CommandsIssued ==
    Len(wire) + Cardinality({k \in SenderIds : senders[k].pc = "sending"})

\* task k calls a command method: the command dict is built with
\* "id": self.command_id and the task is suspended in
\* "await self.websocket.send(json.dumps(command))"
CommandBuild(k) ==
    /\ senders[k].pc = "idle"
    /\ CommandsIssued < MaxCommands
    /\ \E c \in CommandNames :
          senders' = [senders EXCEPT ![k] = [pc |-> "sending", cmd |-> c, id |-> command_id]]
    /\ UNCHANGED <<command_id, wire, bookVars, mgrVars, view, readers, shutdownVars,
                   fedInRange,
                   prevHandled>>

\* the send of task k completes: the command is on the wire, the task
\* resumes and executes "self.command_id += 1"
CommandSent(k) ==
    /\ senders[k].pc = "sending"
    /\ wire' = Append(wire, [cmd |-> senders[k].cmd, id |-> senders[k].id])
    /\ command_id' = command_id + 1
    /\ senders' = [senders EXCEPT ![k] = NoCommand]
    /\ UNCHANGED <<bookVars, mgrVars, view, readers, shutdownVars, fedInRange,
                   prevHandled>>

NextCommands == \E k \in SenderIds : CommandBuild(k) \/ CommandSent(k)

SpecCommands == InitCommands /\ [][NextCommands]_vars

----------------------------------------------------------------------------
(* SpecRange: the prices an OrderBook is given, src/OrderBook.py __init__
   and _update_side *)

\* the prices of the events: the two bounds of the price range and the first
\* integer above it
RangePrices == {0, 100, 101}

\* the [price, quantity] lists of the snapshot
RangeOrders == UNION {[1 .. k -> RangePrices \X {0, 1}] : k \in 0 .. MaxSnapLen}

\* the deltas applied to the book
RangeDeltas == {DeltaMsg(side, price, d) :
                  side \in {"yes", "no"}, price \in RangePrices, d \in {-1, 1}}

\* every entry of a [price, quantity] list has its price in 0 .. 100
OrdersInRange(orders) == \A i \in 1 .. Len(orders) : orders[i][1] \in 0 .. 100

\* the book built from a snapshot
InitRange ==
    /\ \E yes_orders \in RangeOrders, no_orders \in RangeOrders :
          /\ book = NewOrderBook("A", yes_orders, no_orders, FALSE)
          /\ fedInRange = (OrdersInRange(yes_orders) /\ OrdersInRange(no_orders))
    /\ topic = <<>>
    /\ initPc = "idle"
    /\ flushIdx = 0
    /\ nPublished = 0
    /\ handedOver = <<>>
    /\ bookResult = "none"
    /\ bookPrev = book
    /\ bookMsg = NoDelta
    /\ MgrInit
    /\ ServiceInit

\* OrderBook.update(msg) on the book
RangeUpdate ==
    /\ \E msg \in RangeDeltas :
         LET r == update(book, msg)
         IN /\ WithinMaxQty(r.book)
            /\ book' = r.book
            /\ bookPrev' = book
            /\ bookMsg' = msg
            /\ bookResult' = r.err
            /\ fedInRange' = (fedInRange /\ msg.price \in 0 .. 100)
    /\ UNCHANGED <<topic, initPc, flushIdx, nPublished, handedOver, mgrVars, view, readers,
                   shutdownVars, commandVars, prevHandled>>

NextRange == RangeUpdate

SpecRange == InitRange /\ [][NextRange]_vars

----------------------------------------------------------------------------
(* Claims about one OrderBook, checked under SpecBook *)

\* the cached best level of a side agrees with the levels of that side
BestYesIsMax(b) ==
    IF DOMAIN b.yes_levels = {} THEN ~b.best_yes.present
    ELSE /\ b.best_yes.present
         /\ b.best_yes.price \in DOMAIN b.yes_levels
         /\ \A p \in DOMAIN b.yes_levels : p <= b.best_yes.price
         /\ b.best_yes.quantity = b.yes_levels[b.best_yes.price]

BestNoIsMin(b) ==
    IF DOMAIN b.no_levels = {} THEN ~b.best_no.present
    ELSE /\ b.best_no.present
         /\ b.best_no.price \in DOMAIN b.no_levels
         /\ \A p \in DOMAIN b.no_levels : p >= b.best_no.price
         /\ b.best_no.quantity = b.no_levels[b.best_no.price]

\* C1: after construction from any snapshot and after every delta, best_yes is
\* the (price, quantity) of the highest yes price, best_no that of the lowest no
\* price, and each is absent exactly when its side is empty
C1_BestOfBookCurrent == BestYesIsMax(book) /\ BestNoIsMin(book)

\* a successful delta has moved the best yes level to another price, and the
\* no side holds two levels
C1_Witness ==
    /\ bookResult = "ok"
    /\ bookPrev.best_yes.present /\ book.best_yes.present
    /\ book.best_yes.price # bookPrev.best_yes.price
    /\ Cardinality(DOMAIN book.no_levels) = 2

\* C2: no price key of yes_levels or no_levels has a quantity <= 0, whatever
\* the snapshot carried and whatever deltas succeeded or failed; a delta that
\* brings a level to exactly 0 leaves no key for that price
C2_NoNonPositiveLevel ==
    /\ \A p \in DOMAIN book.yes_levels : book.yes_levels[p] > 0
    /\ \A p \in DOMAIN book.no_levels : book.no_levels[p] > 0
    /\ (bookResult = "ok" /\ bookMsg.side = "yes"
          /\ DictGet0(bookPrev.yes_levels, bookMsg.price) + bookMsg.delta = 0)
        => bookMsg.price \notin DOMAIN book.yes_levels
    /\ (bookResult = "ok" /\ bookMsg.side = "no"
          /\ DictGet0(bookPrev.no_levels, bookMsg.price) + bookMsg.delta = 0)
        => bookMsg.price \notin DOMAIN book.no_levels

\* a delta has brought an existing level to exactly 0
C2_Witness ==
    /\ bookResult = "ok"
    /\ bookMsg.side = "no"
    /\ bookMsg.price \in DOMAIN bookPrev.no_levels
    /\ bookPrev.no_levels[bookMsg.price] + bookMsg.delta = 0

\* the last update() was a well-formed delta that takes its level below zero
NegativeDelta ==
    /\ bookMsg.side \in {"yes", "no"}
    /\ bookMsg.price # NoneInt /\ bookMsg.delta # NoneInt
    /\ DictGet0(IF bookMsg.side = "yes" THEN bookPrev.yes_levels ELSE bookPrev.no_levels,
                bookMsg.price) + bookMsg.delta < 0

\* C3: a delta with current quantity + delta < 0 fails with NegativeQuantity
\* and leaves yes_levels, no_levels, best_yes and best_no as they were
C3_NegativeQuantityNoChange ==
    NegativeDelta =>
        /\ bookResult = "NegativeQuantity"
        /\ book.yes_levels = bookPrev.yes_levels
        /\ book.no_levels = bookPrev.no_levels
        /\ book.best_yes = bookPrev.best_yes
        /\ book.best_no = bookPrev.best_no

\* a delta of -2 has been refused on a level that held 1
C3_Witness ==
    /\ NegativeDelta
    /\ bookResult = "NegativeQuantity"
    /\ DictGet0(IF bookMsg.side = "yes" THEN bookPrev.yes_levels ELSE bookPrev.no_levels,
                bookMsg.price) = 1

\* C10: the records of a ticker reach the topic in the order in which they
\* were published, the ones buffered before the producer attached ahead of
\* every record published afterwards
C10_BufferedFirstInOrder ==
    \A i, j \in 1 .. Len(topic) : i < j => topic[i].id < topic[j].id

----------------------------------------------------------------------------
(* Claims about the feed loop, checked under Spec *)

\* this step is a process_message call that has reached _check_sequence with
\* a sequence number
CheckedSequence ==
    /\ pc = "callback" /\ pc' = "recv"
    /\ inflight.type \in Channels
    /\ result' \in {"ok", "SequenceGap"}

\* C4: on each channel the first sequence number is accepted and recorded
\* whatever it is; afterwards a number is accepted if and only if it is the
\* last accepted number plus one, every other one fails with SequenceGap, and
\* a failed check leaves the last accepted number unchanged
C4_SequenceCheck ==
    [][CheckedSequence =>
         LET ch == inflight.type
             s  == inflight.seq
         IN IF ~accepted[ch]
            THEN result' = "ok" /\ sequence_numbers'[ch] = s
            ELSE /\ (result' = "ok") <=> (s = sequence_numbers[ch] + 1)
                 /\ result' = "ok" => sequence_numbers'[ch] = s
                 /\ result' # "ok" => (result' = "SequenceGap"
                                       /\ sequence_numbers' = sequence_numbers)]_vars

\* C5: over a whole run of the feed loop, at most one record is published by
\* messages that failed the sequence check
C5_AtMostOneGapRecord == gapRecords <= 1

\* the envelope in flight is a well-formed delta for a registered market
WellFormedKnownDelta ==
    /\ inflight.type = "orderbook_delta"
    /\ inflight.market_ticker \in Tickers
    /\ orderbooks[inflight.market_ticker] # NoBook
    /\ update(orderbooks[inflight.market_ticker], inflight.delta).err = "ok"

\* the sequence number in flight is not the recorded one plus one
NonConsecutive ==
    /\ inflight.seq # NoneInt
    /\ sequence_numbers[inflight.type] # Unset
    /\ inflight.seq # sequence_numbers[inflight.type] + 1

\* C6: the sequence check runs after the payload has been applied: a
\* well-formed delta for a known market with a non-consecutive sequence number
\* fails with SequenceGap, and the market's book holds the delta's mutation and
\* the record of the mutated book has been emitted; a snapshot whose sequence
\* check fails has been registered all the same
C6_CheckAfterApply ==
    [][(pc = "callback" /\ pc' = "recv") =>
         /\ (WellFormedKnownDelta /\ NonConsecutive) =>
               LET tk == inflight.market_ticker
               IN /\ result' = "SequenceGap" /\ raised'
                  /\ orderbooks'[tk] # orderbooks[tk]
                  /\ orderbooks'[tk] = update(orderbooks[tk], inflight.delta).book
                  /\ emitted' = <<Record(orderbooks'[tk], 1)>>
         /\ (inflight.type = "orderbook_snapshot" /\ inflight.market_ticker \in Tickers
               /\ NonConsecutive) =>
               /\ result' = "SequenceGap" /\ raised'
               /\ orderbooks'[inflight.market_ticker].yes_levels
                    = levels_from_orders(inflight.yes)
               /\ orderbooks'[inflight.market_ticker].no_levels
                    = levels_from_orders(inflight.no)]_vars

\* a delta has failed with SequenceGap after changing its book and emitting
\* the record of the changed book
C6_Witness ==
    /\ pc = "recv"
    /\ result = "SequenceGap"
    /\ Len(emitted) = 1
    /\ \E t \in Tickers : /\ orderbooks[t] # NoBook
                           /\ emitted[1].market_ticker = t
                           /\ emitted[1].yes = orderbooks[t].yes_levels
                           /\ DOMAIN orderbooks[t].yes_levels # {}

\* C7: an orderbook_delta for a ticker with no registered book fails with
\* UnknownMarket, creates no book and leaves every book as it was
C7_UnknownMarket ==
    [][(/\ pc = "callback" /\ pc' = "recv"
        /\ inflight.type = "orderbook_delta"
        /\ inflight.market_ticker \in Tickers
        /\ orderbooks[inflight.market_ticker] = NoBook) =>
         /\ result' = "UnknownMarket" /\ raised'
         /\ orderbooks' = orderbooks
         /\ emitted' = <<>>]_vars

\* a delta has failed with UnknownMarket while the other market had a book
C7_Witness ==
    /\ pc = "recv"
    /\ result = "UnknownMarket"
    /\ \E t, u \in Tickers : orderbooks[t] = NoBook /\ orderbooks[u] # NoBook

\* C8: process_message raises MalformedMessage when the envelope has no type,
\* and when an orderbook_snapshot or orderbook_delta payload has no ticker
C8_MalformedRaises ==
    [][(/\ pc = "callback" /\ pc' = "recv"
        /\ \/ inflight.type = NoneStr
           \/ /\ inflight.type \in {"orderbook_snapshot", "orderbook_delta"}
              /\ inflight.market_ticker = NoneStr) =>
         (result' = "MalformedMessage" /\ raised')]_vars

\* the failures of payload handling, and those of the sequence check
PayloadFailures  == {"UnknownMarket", "InvalidSide", "NegativeQuantity", "MissingFields"}
SequenceFailures == {"MissingSequence", "SequenceGap"}

\* C9: a failure of the payload handler or of the sequence check is raised by
\* process_message to its caller; the message is aborted where it failed (a
\* payload failure leaves the books and the counters alone and emits nothing),
\* it is not applied a second time, and the counters are not moved to the
\* failed sequence number
C9_FailurePropagates ==
    [][(pc = "callback" /\ pc' = "recv") =>
         /\ result' \in PayloadFailures =>
               /\ raised'
               /\ orderbooks' = orderbooks
               /\ sequence_numbers' = sequence_numbers
               /\ emitted' = <<>>
         /\ result' \in SequenceFailures =>
               /\ raised'
               /\ sequence_numbers' = sequence_numbers
               /\ inflight.type = "orderbook_delta" =>
                     /\ orderbooks'[inflight.market_ticker]
                          = update(orderbooks[inflight.market_ticker], inflight.delta).book
                     /\ Len(emitted') = 1
         /\ ~raised' => result' \in {"ok", "returned_no_ticker", "returned_unknown_type"}]_vars

\* a delta has been refused for its quantity and the failure was raised
C9_Witness ==
    /\ pc = "recv"
    /\ result = "NegativeQuantity"
    /\ raised

\* C11: every delta that is applied emits exactly one record, on the topic of
\* the market it was applied to, and the record is the whole book as it is
\* right after the delta: the ticker, every yes level and every no level
C11_DeltaEmitsFullState ==
    [][(pc = "callback" /\ pc' = "recv" /\ WellFormedKnownDelta) =>
         LET tk == inflight.market_ticker
         IN /\ orderbooks'[tk] = update(orderbooks[tk], inflight.delta).book
            /\ Len(emitted') = 1
            /\ emitted'[1].market_ticker = tk
            /\ emitted'[1].yes = orderbooks'[tk].yes_levels
            /\ emitted'[1].no = orderbooks'[tk].no_levels]_vars

\* a delta has been applied to a book with levels on both sides and its one
\* record carries both sides
C11_Witness ==
    /\ pc = "recv"
    /\ lastHandled.type = "orderbook_delta"
    /\ result = "ok"
    /\ Len(emitted) = 1
    /\ DOMAIN emitted[1].yes # {} /\ DOMAIN emitted[1].no # {}
    /\ emitted[1].yes = orderbooks[lastHandled.market_ticker].yes_levels
    /\ emitted[1].no = orderbooks[lastHandled.market_ticker].no_levels

\* C12: processing an orderbook_snapshot publishes the full state of the book
\* it registered as a record on the market's topic
C12_SnapshotEmitsRecord ==
    [][(/\ pc = "callback" /\ pc' = "recv"
        /\ inflight.type = "orderbook_snapshot"
        /\ inflight.market_ticker \in Tickers) =>
         LET tk == inflight.market_ticker
         IN /\ Len(emitted') = 1
            /\ emitted'[1].market_ticker = tk
            /\ emitted'[1].yes = orderbooks'[tk].yes_levels
            /\ emitted'[1].no = orderbooks'[tk].no_levels]_vars

\* the levels of the side that get_book was not asked for
OppositeLevels == IF view.side = "yes" THEN book.no_levels ELSE book.yes_levels

\* C13: get_book returns the chosen side's levels as the bids, and as the
\* offers one entry per level of the opposite side, keyed 100 - price with
\* the level's quantity: none merged, none lost, and 100 - key gives back the
\* prices of the opposite side
C13_OffersAreComplement ==
    view # NoView =>
        /\ view.bids = (IF view.side = "yes" THEN book.yes_levels ELSE book.no_levels)
        /\ DOMAIN view.offers = {100 - p : p \in DOMAIN OppositeLevels}
        /\ Cardinality(DOMAIN view.offers) = Cardinality(DOMAIN OppositeLevels)
        /\ \A p \in DOMAIN OppositeLevels : view.offers[100 - p] = OppositeLevels[p]
        /\ {100 - k : k \in DOMAIN view.offers} = DOMAIN OppositeLevels

\* get_book has been called on a book with two levels of different quantities
\* on the opposite side and a different chosen side
C13_Witness ==
    /\ view # NoView
    /\ Cardinality(DOMAIN OppositeLevels) = 2
    /\ \E p, q \in DOMAIN OppositeLevels : OppositeLevels[p] # OppositeLevels[q]
    /\ view.bids # OppositeLevels
    /\ DOMAIN view.bids # {}

\* the levels that a list of [price, quantity] entries describes are exactly
\* its entries with a quantity above zero
ExactlyPositiveEntries(levels, orders) ==
    /\ DOMAIN levels = {orders[i][1] : i \in {j \in 1 .. Len(orders) : orders[j][2] > 0}}
    /\ \A p \in DOMAIN levels : \E i \in 1 .. Len(orders) : orders[i] = <<p, levels[p]>>

\* C14: after an orderbook_snapshot for a ticker has been processed, the book
\* registered under the ticker holds exactly the snapshot's entries with a
\* quantity above zero on each side, nothing of the book it replaces, and the
\* books of the other tickers are as they were
C14_SnapshotReplaces ==
    [][(/\ pc = "callback" /\ pc' = "recv"
        /\ inflight.type = "orderbook_snapshot"
        /\ inflight.market_ticker \in Tickers) =>
         LET tk == inflight.market_ticker
         IN /\ orderbooks'[tk] # NoBook
            /\ ExactlyPositiveEntries(orderbooks'[tk].yes_levels, inflight.yes)
            /\ ExactlyPositiveEntries(orderbooks'[tk].no_levels, inflight.no)
            /\ \A u \in Tickers \ {tk} : orderbooks'[u] = orderbooks[u]]_vars

\* a snapshot has been processed after an earlier one (its sequence number is
\* a repeat), for a ticker whose book has levels while the other ticker has a
\* book with levels too
C14_Witness ==
    /\ pc = "recv"
    /\ lastHandled.type = "orderbook_snapshot"
    /\ result = "SequenceGap"
    /\ \A t \in Tickers :
          /\ orderbooks[t] # NoBook
          /\ DOMAIN orderbooks[t].yes_levels \cup DOMAIN orderbooks[t].no_levels # {}
    /\ \E t \in Tickers : lastHandled.market_ticker = t

\* C15: the messages of the connection are processed one at a time and in
\* the order of their arrival: a callback begins only when none is running,
\* at most one is ever running, and the books and the counters change only in
\* the step in which the one running callback returns
C15_OneAtATime ==
    [][/\ running' <= 1
       /\ (running' > running) => (running = 0 /\ pc = "recv")
       /\ (orderbooks' # orderbooks \/ sequence_numbers' # sequence_numbers) =>
             (running = 1 /\ running' = 0 /\ pc = "callback")]_vars

\* a message is being processed after earlier ones have registered a book and
\* advanced a counter
C15_Witness ==
    /\ running = 1
    /\ pc = "callback"
    /\ inflight.type = "orderbook_delta"
    /\ \E t \in Tickers : orderbooks[t] # NoBook
    /\ sequence_numbers["orderbook_snapshot"] # Unset

\* C16: a from_kafka invocation yields only books of records published after
\* it attached, never one the topic already held, and in the order of
\* publication; a step of one invocation leaves the other invocation on the
\* same ticker as it was
C16_StartsAtLatest ==
    [][/\ \A r \in ReaderIds :
            readers'[r].last # readers[r].last =>
               /\ readers'[r].last > readers[r].attached
               /\ readers'[r].last > readers[r].last
               /\ readers'[r].last <= Len(topic)
       /\ \A r, o \in ReaderIds :
            (r # o /\ readers'[r] # readers[r]) => readers'[o] = readers[o]]_vars

\* a reader that attached when the topic already held a record has been
\* yielded a later record, while the other reader, attached earlier, has been
\* yielded another one
C16_Witness ==
    \E r, o \in ReaderIds :
        /\ r # o
        /\ readers[r].attached >= 1
        /\ readers[r].last > readers[r].attached
        /\ readers[o].attached = 0
        /\ readers[o].last >= 1
        /\ readers[o].last # readers[r].last

\* C17: whenever the iteration of a from_kafka invocation has been left, at
\* the end of the stream, by an error of the consumer or of the construction
\* of a book, by the reader's break or by cancellation, the consumer it
\* started has been stopped
C17_ConsumerStopped ==
    \A r \in ReaderIds : readers[r].pc = "returned" => readers[r].consumer = "stopped"

\* a delta that the manager's book accepts within the bounds of the model
PublishableDelta ==
    /\ Len(topic) < MaxPub
    /\ \E msg \in ConsumeDeltas :
          update(book, msg).err = "ok" /\ WithinMaxQty(update(book, msg).book)

C18_AllReleased ==
    (sdPc = "stopped" /\ collected = 0) =>
        /\ \A k \in TaskIds : tasks[k] = "done"
        /\ socket = "closed"
        /\ \A n \in 1 .. MaxProducers : producers[n] \in {"unused", "stopped"}

\* C19: an error raised by the close of the websocket or by the stop of a
\* book's producer is collected: shutdown goes on to close what remains and
\* reaches its end, it never fails
C19_BestEffort ==
    /\ sdPc # "failed"
    /\ (socket = "close_failed" \/ \E n \in 1 .. MaxProducers : producers[n] = "stop_failed")
          => sdPc \in {"closing_books", "gathering", "stopped"}
    /\ sdPc = "stopped" =>
          \A n \in RegisteredProducers : producers[n] \in {"stopped", "stop_failed"}

\* C21: after the connection has closed and has been established again, the
\* feed loop is receiving or processing the messages of the new connection
C21_FeedResumesAfterReconnect ==
    socket = "open" => pc \in {"recv", "callback"}

\* C22: a 'subscribed' message, a 'ticker' message and a message of a channel
\* the manager does not know cause no failure and no sequence check, and
\* change no book, no entry of the ticker -> book map and no sequence
\* counter, whatever their seq, absent included
C22_ControlMessagesNoEffect ==
    [][(/\ pc = "callback" /\ pc' = "recv"
        /\ inflight.type \notin {NoneStr, "trade", "orderbook_snapshot", "orderbook_delta"}) =>
         /\ ~raised'
         /\ result' \in {"ok", "returned_no_ticker", "returned_unknown_type"}
         /\ orderbooks' = orderbooks
         /\ sequence_numbers' = sequence_numbers
         /\ emitted' = <<>>]_vars

\* a message of an unknown channel has been processed while a book was
\* registered and a delta sequence number recorded
C22_Witness ==
    /\ pc = "recv"
    /\ lastHandled.type = "fill"
    /\ lastHandled.market_ticker = "A"
    /\ result = "returned_unknown_type"
    /\ orderbooks["A"] # NoBook
    /\ sequence_numbers["orderbook_delta"] # Unset

\* the envelope in flight is of a sequence-checked channel, names a market and
\* has no sequence number
TickerNoSequence ==
    /\ inflight.type \in Channels
    /\ inflight.market_ticker \in Tickers
    /\ inflight.seq = NoneInt

\* C23 as stated: a trade, orderbook_snapshot or orderbook_delta message with
\* a ticker and no sequence number fails with MissingSequence and leaves the
\* channel's counter unchanged
C23_MissingSequence ==
    [][(pc = "callback" /\ pc' = "recv" /\ TickerNoSequence) =>
         /\ result' = "MissingSequence"
         /\ raised'
         /\ sequence_numbers' = sequence_numbers]_vars

\* C23 amended: such a message always fails and leaves every counter
\* unchanged; the failure is MissingSequence when its payload has been applied
\* without error, and the payload's own error when it is a delta that could
\* not be applied, since the payload is handled before the sequence check
C23_MissingSequenceAfterPayload ==
    [][(pc = "callback" /\ pc' = "recv" /\ TickerNoSequence) =>
         /\ raised'
         /\ sequence_numbers' = sequence_numbers
         /\ (inflight.type # "orderbook_delta" \/ WellFormedKnownDelta)
               => result' = "MissingSequence"
         /\ (inflight.type = "orderbook_delta" /\ ~WellFormedKnownDelta)
               => result' \in PayloadFailures]_vars

\* a delta without sequence number has failed with MissingSequence while the
\* delta channel had a recorded sequence number, which is still there
C23_Witness ==
    /\ pc = "recv"
    /\ lastHandled.type = "orderbook_delta"
    /\ result = "MissingSequence"
    /\ raised
    /\ sequence_numbers["orderbook_delta"] \in 0 .. MaxSeq

\* C24: every command sent carries an id strictly greater than the id of
\* every command sent before it, so that no two sent commands share an id,
\* also when two tasks are suspended in the send at the same time
C24_CommandIdsIncrease ==
    \A i, j \in 1 .. Len(wire) : i < j => wire[i].id < wire[j].id

\* every price key of the book is an integer in 0 .. 100 and every quantity
\* is a non-negative integer
PricesAndQuantitiesInRange ==
    /\ DOMAIN book.yes_levels \subseteq 0 .. 100
    /\ DOMAIN book.no_levels \subseteq 0 .. 100
    /\ \A p \in DOMAIN book.yes_levels : book.yes_levels[p] \in Nat
    /\ \A p \in DOMAIN book.no_levels : book.no_levels[p] \in Nat

DeltaSideNow  == IF bookMsg.side = "yes" THEN book.yes_levels ELSE book.no_levels
DeltaSidePrev == IF bookMsg.side = "yes" THEN bookPrev.yes_levels ELSE bookPrev.no_levels
OtherSideNow  == IF bookMsg.side = "yes" THEN book.no_levels ELSE book.yes_levels
OtherSidePrev == IF bookMsg.side = "yes" THEN bookPrev.no_levels ELSE bookPrev.yes_levels

\* C26: a successful delta (side, price, d) sets the quantity of that cell to
\* its previous quantity (0 if absent) plus d and removes the cell when the
\* sum is 0; every other level of that side and every level of the other
\* side is as before
C26_DeltaSetsOneCell ==
    bookResult = "ok" =>
        LET sum == DictGet0(DeltaSidePrev, bookMsg.price) + bookMsg.delta
        IN /\ sum = 0 => bookMsg.price \notin DOMAIN DeltaSideNow
           /\ sum # 0 => /\ bookMsg.price \in DOMAIN DeltaSideNow
                         /\ DeltaSideNow[bookMsg.price] = sum
           /\ DOMAIN DeltaSideNow \ {bookMsg.price} = DOMAIN DeltaSidePrev \ {bookMsg.price}
           /\ \A p \in DOMAIN DeltaSidePrev \ {bookMsg.price} : DeltaSideNow[p] = DeltaSidePrev[p]
           /\ OtherSideNow = OtherSidePrev

\* a delta has added to an existing level of a side that has another level,
\* while the other side has levels too
C26_Witness ==
    /\ bookResult = "ok"
    /\ bookMsg.price \in DOMAIN DeltaSidePrev
    /\ bookMsg.delta = 1
    /\ DeltaSideNow[bookMsg.price] = 2
    /\ DOMAIN DeltaSidePrev \ {bookMsg.price} # {}
    /\ DOMAIN OtherSidePrev # {}

\* a delta payload that lacks side, price or delta, or whose side is neither
\* 'yes' nor 'no'
IllFormedDelta(msg) ==
    \/ msg.side \notin {"yes", "no"}
    \/ msg.price = NoneInt
    \/ msg.delta = NoneInt

\* C27: a delta whose side is neither 'yes' nor 'no', or that lacks side, price
\* or delta, fails with an error; a delta that fails leaves yes_levels,
\* no_levels, best_yes and best_no unchanged and hands no record to the
\* producer, neither sent nor buffered
C27_InvalidDeltaNoEffect ==
    [][(initPc' = initPc /\ flushIdx' = flushIdx) =>
         /\ IllFormedDelta(bookMsg') => bookResult' \in {"InvalidSide", "MissingFields"}
         /\ bookResult' \in {"InvalidSide", "MissingFields", "NegativeQuantity"} =>
              /\ book'.yes_levels = book.yes_levels
              /\ book'.no_levels = book.no_levels
              /\ book'.best_yes = book.best_yes
              /\ book'.best_no = book.best_no
              /\ book'.pending_messages = book.pending_messages
              /\ topic' = topic
              /\ nPublished' = nPublished]_vars

\* a delta with an invalid side has failed on a book that has levels on both
\* sides and a started producer that has already sent a record
C27_Witness ==
    /\ bookResult = "InvalidSide"
    /\ bookMsg.side = "maybe"
    /\ book.should_publish
    /\ book.producer = "started"
    /\ topic # <<>>
    /\ book.yes_levels # EmptyLevels
    /\ book.no_levels # EmptyLevels
    /\ book = bookPrev

----------------------------------------------------------------------------
(* SpecSeq: the feed loop over two markets, with numbered messages on the *)
(* three sequence-checked channels                                         *)

\* the values of 'seq' on the orderbook_delta channel of this feed: absent, or
\* an integer
ChannelSeqs == (0 .. MaxSeq) \cup {NoneInt}

\* the envelopes in this feed
SeqMsgs ==
    {Envelope("trade", sq, "A", <<>>, <<>>, NoDelta) : sq \in {NoneInt, 0, 1}}
    \cup {Envelope("orderbook_snapshot", sq, tk, <<<<40, 1>>>>, <<>>, NoDelta) :
            sq \in OtherSeqs, tk \in Tickers}
    \cup {Envelope("orderbook_delta", sq, tk, <<>>, <<>>, d) :
            sq \in ChannelSeqs, tk \in Tickers,
            d \in {DeltaMsg("yes", 40, 1), DeltaMsg("yes", 40, -1)}}

InitSeq == Init

\* listen: recv() returns a message and message_callback begins; the message
\* processed last becomes the one before the last
SeqRecv ==
    /\ pc = "recv"
    /\ gapRecords < MaxGapRecords
    /\ \E m \in SeqMsgs :
         /\ ~ExceedsMaxQty(m)
         /\ inflight' = m
    /\ pc' = AfterDispatch
    /\ running' = running + 1
    /\ prevHandled' = [type |-> lastHandled.type,
                       market_ticker |-> lastHandled.market_ticker,
                       result |-> result]
    /\ result' = "pending"
    /\ raised' = FALSE
    /\ emitted' = <<>>
    /\ lastHandled' = NoHandled
    /\ UNCHANGED <<orderbooks, sequence_numbers, accepted, gapRecords, bookVars,
                   view, readers, shutdownVars, commandVars, fedInRange>>

NextSeq ==
    \/ SeqRecv
    \/ FeedCallback

SpecSeq == InitSeq /\ [][NextSeq]_vars

\* C28: the sequence counters are kept per channel and not per market:
\* processing a message changes no counter but that of the message's channel,
\* and a message that reaches the sequence check passes it exactly when it
\* has a seq and the counter of its channel is unset or one less than the seq,
\* whatever the ticker of the message and of the messages before it
C28_CountersPerChannel ==
    [][(pc = "callback" /\ pc' = "recv") =>
         /\ \A c \in Channels \ {inflight.type} :
              sequence_numbers'[c] = sequence_numbers[c]
         /\ (inflight.type \in Channels
             /\ result' \in {"ok", "SequenceGap", "MissingSequence"}) =>
              /\ result' = "ok" <=>
                   /\ inflight.seq # NoneInt
                   /\ \/ sequence_numbers[inflight.type] = Unset
                      \/ inflight.seq = sequence_numbers[inflight.type] + 1
              /\ result' = "ok" => sequence_numbers'[inflight.type] = inflight.seq
              /\ result' # "ok" => sequence_numbers' = sequence_numbers]_vars

\* a delta for market B has been accepted right after a delta for market A,
\* with the next sequence number, while the other channels have counters of
\* their own
C28_Witness ==
    /\ pc = "recv"
    /\ prevHandled = [type |-> "orderbook_delta", market_ticker |-> "A", result |-> "ok"]
    /\ lastHandled = [type |-> "orderbook_delta", market_ticker |-> "B"]
    /\ result = "ok"
    /\ sequence_numbers["orderbook_delta"] = 2
    /\ sequence_numbers["orderbook_snapshot"] = 0
    /\ sequence_numbers["trade"] = 1

\* C29: every record in the topic has the levels the book had when the delta
\* that emitted it was applied, also a record that was buffered before the
\* producer was attached and sent after further deltas
C29_RecordIsCopy ==
    \A i \in 1 .. Len(topic) :
        /\ topic[i].id \in DOMAIN handedOver
        /\ topic[i].yes = handedOver[topic[i].id].yes
        /\ topic[i].no = handedOver[topic[i].id].no

\* the book the reader r holds is the one from_kafka built from the record
\* at readers[r].last, no delta applied to it yet
ReaderHoldsFresh(r) == readers[r].pc = "body" /\ ~readers[r].touched

\* C30: the OrderBook a reader obtains from a record has the ticker, the yes
\* and no levels and the bests that the publishing book had when it emitted
\* the record, and the reader-side book publishes nothing, also when a delta
\* is applied to it: the topic is as before and nothing is buffered
C30_RoundTripAndSilent ==
    [][/\ \A r \in ReaderIds :
            ReaderHoldsFresh(r)' =>
               LET rb   == readers'[r].book
                   sent == handedOver'[topic'[readers'[r].last].id]
               IN /\ rb.ticker = sent.ticker
                  /\ rb.yes_levels = sent.yes
                  /\ rb.no_levels = sent.no
                  /\ rb.best_yes = sent.best_yes
                  /\ rb.best_no = sent.best_no
       /\ \A r \in ReaderIds :
            (readers[r].pc = "body" /\ readers'[r].pc = "body" /\ readers'[r] # readers[r]) =>
               /\ topic' = topic
               /\ readers'[r].book.pending_messages = <<>>
               /\ readers'[r].book.producer = "None"
               /\ ~readers'[r].book.should_publish]_vars

\* a reader holds a book with levels on both sides to which a delta has been
\* applied, and the topic holds the two records it held before
C30_Witness ==
    \E r \in ReaderIds :
        /\ readers[r].pc = "body"
        /\ readers[r].touched
        /\ readers[r].last = 2
        /\ readers[r].book.yes_levels # EmptyLevels
        /\ readers[r].book.no_levels # EmptyLevels
        /\ readers[r].book.yes_levels # topic[2].yes
        /\ Len(topic) = 2

\* C31: a trade, snapshot or delta message whose payload handling fails, or
\* that is returned early for lack of a ticker, leaves every channel's last
\* accepted sequence number unchanged: its own number is not recorded, and any
\* next number on its channel gets the verdict it would have got before it
C31_FailedPayloadKeepsCounters ==
    [][(/\ pc = "callback" /\ pc' = "recv"
        /\ inflight.type \in Channels
        /\ result' \in PayloadFailures \cup {"returned_no_ticker"}) =>
         /\ sequence_numbers' = sequence_numbers
         /\ \A s \in SeqVals :
              check_sequence(sequence_numbers', inflight.type, s).err
                = check_sequence(sequence_numbers, inflight.type, s).err]_vars

\* the payload of a delta has failed while the delta channel had accepted the
\* number 1, and the channel still holds it
C31_Witness ==
    /\ pc = "recv"
    /\ lastHandled.type = "orderbook_delta"
    /\ result \in PayloadFailures
    /\ accepted["orderbook_delta"]
    /\ sequence_numbers["orderbook_delta"] = 1

\* C32: once a channel has accepted a sequence number it never is in the
\* 'unset' state again: whatever integer was accepted, 0 and negative ones
\* included, every later number accepted on the channel is the previously
\* accepted one plus one
C32_NeverUnsetAgain ==
    [][(pc = "callback" /\ pc' = "recv" /\ inflight.type \in Channels) =>
         LET ch == inflight.type
         IN /\ accepted'[ch] => sequence_numbers'[ch] # Unset
            /\ (accepted[ch] /\ result' = "ok") =>
                  inflight.seq = sequence_numbers[ch] + 1]_vars

\* this step is a call of the handler by the monitor r: the loop body has
\* counted the update
HandlerCalled(r) == readers[r].pc = "body" /\ readers'[r].updates # readers[r].updates

\* this step hands the monitor r a record from which a book can be built
RecordYielded(r) ==
    /\ readers[r].pc = "waiting"
    /\ readers'[r].offset = readers[r].offset + 1
    /\ from_record_err(topic[readers'[r].offset]) = "ok"

\* the monitor r is in its loop after this step, waiting for the next record
MonitorGoesOn(r) ==
    /\ readers'[r].pc = "waiting"
    /\ readers'[r].consumer = "started"
    /\ readers'[r].exit = "none"

\* in this step the monitor r keeps its count of updates, or has called the
\* handler with a count one greater; it goes back to waiting only through a
\* handler call, and a record yielded after the handler raised reaches the
\* loop body
CountsEveryRecord(r) ==
    /\ readers'[r].updates # readers[r].updates =>
          /\ readers[r].pc = "body"
          /\ readers'[r].updates = readers[r].updates + 1
          /\ readers'[r].handler # "none"
    /\ (readers[r].pc = "body" /\ readers'[r].pc = "waiting") => HandlerCalled(r)
    /\ (RecordYielded(r) /\ readers[r].handler = "raised") => readers'[r].pc = "body"

\* C33 as stated: whatever the handler raises for one book, monitor_market
\* goes on: the later records are handed to the handler, each with an update
\* count one greater than that of the previous record
C33_HandlerErrorKeepsMonitor ==
    [][\A r \in ReaderIds :
         /\ (HandlerCalled(r) /\ readers'[r].handler \in {"raised", "cancelled"}) =>
               MonitorGoesOn(r)
         /\ CountsEveryRecord(r)]_vars

\* C33 amended: an Exception raised by the handler for one book does not end
\* monitor_market: the later records are handed to the handler, each with an
\* update count one greater than that of the previous record; an
\* asyncio.CancelledError raised by the handler ends the loop
C33_HandlerExceptionKeepsMonitor ==
    [][\A r \in ReaderIds :
         /\ (HandlerCalled(r) /\ readers'[r].handler = "raised") => MonitorGoesOn(r)
         /\ (HandlerCalled(r) /\ readers'[r].handler = "cancelled") =>
               readers'[r].pc = "returned"
         /\ CountsEveryRecord(r)]_vars

\* the handler of a monitor raised for the first record and has been called
\* for the second one with the count 2, and the monitor waits for a third
C33_Witness ==
    \E r \in ReaderIds :
        /\ readers[r].pc = "waiting"
        /\ readers[r].consumer = "started"
        /\ readers[r].handlerBefore = "raised"
        /\ readers[r].handler \in {"returned", "raised"}
        /\ readers[r].updates = 2
        /\ readers[r].last = 2

====
